---- MODULE Spec2Model ----
(***************************************************************************)
(* Verification model of the wemoov-hrm display front end.                 *)
(*                                                                         *)
(*  - LIVE view (static/js/views/live.js): the roster `cards` (a JS Map    *)
(*    dev -> {el, fadeStart}), the grid element, reconcile(list) and the   *)
(*    coalesced layout pass safeLayout().                                  *)
(*  - SUMMARY view (static/js/views/summary.js): loadSummaryWithPolling,   *)
(*    fetchPersisted, scheduleSilentRetry and renderSummary.               *)
(*                                                                         *)
(* Times are milliseconds, as returned by Date.now().                      *)
(***************************************************************************)
EXTENDS Integers, Sequences, FiniteSets, TLC

VARIABLES
    now,               \* Date.now(): the wall clock, in ms
    \* ---- LIVE view --------------------------------------------------------
    fadeCfg,           \* CONFIG.FADE_DURATION_MS
    cards,             \* Map dev -> [el, fadeStart]   (DOMAIN = keys present)
    els,               \* the card elements alive: el -> [dev, hr, opacity, transform]
    grid,              \* children of #grid, in document order (sequence of el)
    layoutLock,        \* _layoutLock
    raf,               \* the requestAnimationFrame callbacks waiting for the next
                       \*          frame, in the order they were requested
    resizeRAF,         \* _resizeRAF (0: none; handles are not told apart)
    laidOut,           \* the arguments of the layoutForCount() calls made by the last
                       \*          frame that ran callbacks of the live view
    SESSION_ACTIVE,    \* SESSION_ACTIVE
    redirectScheduled, \* _redirectScheduled
    redirects,         \* the timeouts set by gotoSummarySoon, each with (history)
                       \*          whether cancelPendingRedirect ran since, and whether
                       \*          it has fired
    location,          \* window.location of the live view
    polls,             \* number of pollStatus() calls awaiting /control/status
    lastSeen,          \* history: the last status the view was told by the server
    alive,             \* history: dev -> buildCard() calls minus removals of its card
    lastCall,          \* history: the last batch's ids, whether one was repeated,
                       \*          and the devs whose card that call removed
    absentSince,       \* history: dev -> time of the first call of the current run of
                       \*          batches without it (NULL: in the last batch, or no card)
    owed,              \* history: reconcile was called and no layoutForCount call
                       \*          has been made since
    \* ---- SUMMARY view -----------------------------------------------------
    summaryRetryTimer, \* handle returned by the last setTimeout of scheduleSilentRetry
    timers,            \* pending silent-retry timeouts: set of [id, due]
    lastETag,          \* lastETag
    currentRunId,      \* currentRunId
    sgrid,             \* contents of #grid in the summary view
    cycles,            \* invocations of loadSummaryWithPolling in progress
    fit,               \* the call of fitNick(el) in progress: its locals, el's inline
                       \*          style, and (history) the style el had before the call
    lastResp,          \* history: the last fetchPersisted() outcome a cycle handled,
                       \*          what the cycle was then, what it did with it, the
                       \*          Retry-After header of the response and, if it was
                       \*          rendered, its ETag header
    tornDown,          \* history: stopTimers() has run
    \* ---- LIVE view: the source of the batches ------------------------------
    es,                \* es: "idle" before startStream(), then "open" or "null"
    inflight,          \* number of tick() calls awaiting fetchJSON("/live?limit=32")
    nextTimer,         \* nextTimer: handle of the last setTimeout(tick, ...)
    tickTimers,        \* pending setTimeout(tick, ...): set of [id, due] (due: its delay)
    lastTick,          \* history: what the last tick() that got its reply received
    req,               \* a call of fetchJSON: its abort timer, its progress and its result
    \* ---- shared UI ---------------------------------------------------------
    lay                \* the grid container, and what the last layoutForCount(n) call
                       \*          wrote and returned

liveVars == <<fadeCfg, cards, els, grid, layoutLock, raf, laidOut,
              alive, lastCall, absentSince, owed>>
viewVars == <<resizeRAF, SESSION_ACTIVE, redirectScheduled, redirects, location,
              polls, lastSeen>>
sumVars  == <<summaryRetryTimer, timers, lastETag, currentRunId,
              sgrid, cycles, lastResp, tornDown>>
netVars  == <<es, inflight, nextTimer, tickTimers, lastTick, req>>
uiVars   == <<fit, lay>>
vars     == <<now, liveVars, viewVars, sumVars, netVars, uiVars>>

-----------------------------------------------------------------------------
(* Bounds of the model.                                                    *)

\* last clock value at which a reconcile call is made
MaxTime == 120000
\* longest batch handed to reconcile
MaxBatch == 2
\* last clock value at which a silent-retry timer may start a cycle
MaxStart == 10000
\* most pollStatus() calls awaiting their reply at once
MaxPolls == 2
\* most timeouts set by gotoSummarySoon in one life of the live page
MaxRedirects == 2

-----------------------------------------------------------------------------
(* Values.                                                                 *)

\* JS null, for the time- and handle-valued fields (all real values are >= 0)
NULL == -1

\* d.dev of a sample whose `dev` field is missing: the Map key `undefined`
Undefined == "undefined"
Devs == {"d1", "d2"}
Keys == Devs \cup {Undefined}
\* d.hr values carried by the samples
Hrs == {100, 150}
\* the samples a batch can hold
Samples == {[dev |-> "d1", hr |-> h] : h \in Hrs} \cup {[dev |-> "d2", hr |-> 100]}

SeqsUpTo(S, n) == UNION {[1..k -> S] : k \in 0..n}
Batches == SeqsUpTo(Samples, MaxBatch)

\* time between two reconcile calls (SSE messages / poll ticks)
Delays == {0, 20000, 40000}
\* values /live/config can give CONFIG.FADE_DURATION_MS (0: falls back to 60000)
FadeConfigs == {0, 40000}

RECURSIVE Gcd(_, _)
Gcd(a, b) == IF b = 0 THEN a ELSE Gcd(b, a % b)

\* a CSS number written to el.style, kept exact as a reduced fraction
Frac(n, d) == LET g == Gcd(n, d) IN [set |-> TRUE, num |-> n \div g, den |-> d \div g]
\* a style property that is not set (the empty string)
Unset == [set |-> FALSE, num |-> 0, den |-> 1]
One == Frac(1, 1)

-----------------------------------------------------------------------------
(* LIVE view: reconcile(list)      src/unnamed/part_002 (views/live.js)    *)

\* const fadeMs = CONFIG.FADE_DURATION_MS || 60000
FadeMs(cfg) == IF cfg = 0 THEN 60000 ELSE cfg

\* document.createElement: a new element; elements that are neither in the
\* roster nor in the grid are unreachable, so their handles are reused
FreshEl(st) ==
    LET used == {st.cards[k].el : k \in DOMAIN st.cards} \cup {st.grid[i] : i \in 1..Len(st.grid)}
    IN  CHOOSE e \in 1..(Cardinality(used) + 1) : e \notin used

\* buildCard(d, ...): a new card element showing d, style untouched
buildCard(d) == [dev |-> d.dev, hr |-> d.hr, opacity |-> Unset, transform |-> Unset]

\* updateCardContent(card, d): the displayed fields are rewritten in place
updateCardContent(card, d) == [card EXCEPT !.hr = d.hr]

\* the recovery of a card that had started to fade
MutRestore(card) == card
Restore(card) == [card EXCEPT !.opacity = One, !.transform = Unset]

\* grid.removeChild(el) inside try/catch: a no-op when el is not a child
RemoveChild(g, el) == SelectSeq(g, LAMBDA e : e # el)

\* 1) altas / updates, for one sample of the batch
MutUpsertKeepClock(st, d) ==
    IF d.dev \notin DOMAIN st.cards
    THEN LET el == FreshEl(st) IN
         [st EXCEPT !.cards = (d.dev :> [el |-> el, fadeStart |-> NULL]) @@ @,
                    !.els = (el :> buildCard(d)) @@ @,
                    !.grid = Append(@, el),
                    !.alive[d.dev] = @ + 1]
    ELSE LET entry == st.cards[d.dev]
             upd == updateCardContent(st.els[entry.el], d)
         IN  IF entry.fadeStart # NULL
             THEN [st EXCEPT !.els[entry.el] = Restore(upd)]
             ELSE [st EXCEPT !.els[entry.el] = upd]
MutUpsertDup(st, d) ==
    LET el == FreshEl(st) IN
    [st EXCEPT !.cards = (d.dev :> [el |-> el, fadeStart |-> NULL]) @@ @,
               !.els = (el :> buildCard(d)) @@ @,
               !.grid = Append(@, el),
               !.alive[d.dev] = @ + 1]
Upsert(st, d) ==
    IF d.dev \notin DOMAIN st.cards
    THEN LET el == FreshEl(st) IN
         [st EXCEPT !.cards = (d.dev :> [el |-> el, fadeStart |-> NULL]) @@ @,
                    !.els = (el :> buildCard(d)) @@ @,
                    !.grid = Append(@, el),
                    !.alive[d.dev] = @ + 1]
    ELSE LET entry == st.cards[d.dev]
             upd == updateCardContent(st.els[entry.el], d)
         IN  IF entry.fadeStart # NULL
             THEN [st EXCEPT !.cards[d.dev].fadeStart = NULL,
                             !.els[entry.el] = Restore(upd)]
             ELSE [st EXCEPT !.els[entry.el] = upd]

RECURSIVE Altas(_, _, _)
Altas(st, arr, i) ==
    IF i > Len(arr) THEN st ELSE Altas(Upsert(st, arr[i]), arr, i + 1)

\* if (elapsed >= fadeMs)
MutFadeOverStrict(elapsed, fadeMs) == elapsed > fadeMs
FadeOver(elapsed, fadeMs) == elapsed >= fadeMs

\* const p = Math.min(1, elapsed / fadeMs); opacity = 1 - p; scale(1 - p * 0.02)
MutFadeOpacity(elapsed, fadeMs) ==
    IF elapsed >= fadeMs THEN Frac(1, 1) ELSE Frac(elapsed, fadeMs)
FadeOpacity(elapsed, fadeMs) ==
    IF elapsed >= fadeMs THEN Frac(0, 1) ELSE Frac(fadeMs - elapsed, fadeMs)
FadeScale(elapsed, fadeMs) ==
    IF elapsed >= fadeMs THEN Frac(49, 50) ELSE Frac(50 * fadeMs - elapsed, 50 * fadeMs)

\* 2) bajas, for one entry of the roster whose dev is not in the batch
MutBajaNoGrace(st, dev, t, fadeMs) ==
    LET entry == st.cards[dev] IN
    [st EXCEPT !.grid = RemoveChild(@, entry.el),
               !.cards = [k \in (DOMAIN @) \ {dev} |-> @[k]],
               !.els = [e \in (DOMAIN @) \ {entry.el} |-> @[e]],
               !.alive[dev] = @ - 1]
Baja(st, dev, t, fadeMs) ==
    LET entry == st.cards[dev] IN
    IF entry.fadeStart = NULL
    THEN [st EXCEPT !.cards[dev].fadeStart = t]
    ELSE LET elapsed == t - entry.fadeStart IN
         IF FadeOver(elapsed, fadeMs)
         THEN [st EXCEPT !.grid = RemoveChild(@, entry.el),
                         !.cards = [k \in (DOMAIN @) \ {dev} |-> @[k]],
                         !.els = [e \in (DOMAIN @) \ {entry.el} |-> @[e]],
                         !.alive[dev] = @ - 1]
         ELSE [st EXCEPT !.els[entry.el].opacity = FadeOpacity(elapsed, fadeMs),
                         !.els[entry.el].transform = FadeScale(elapsed, fadeMs)]

\* for (const [dev, entry] of cards) if (!nowDevs.has(dev)) ...
\* (the entries are independent of each other, so any order gives the same result)
RECURSIVE Bajas(_, _, _, _)
Bajas(st, absent, t, fadeMs) ==
    IF absent = {} THEN st
    ELSE LET dev == CHOOSE k \in absent : TRUE
         IN  Bajas(Baja(st, dev, t, fadeMs), absent \ {dev}, t, fadeMs)

\* const nowDevs = new Set(arr.map((d) => d.dev))
NowDevs(arr) == {arr[i].dev : i \in 1..Len(arr)}

\* the roster part of reconcile(list) called at clock value t
ReconcileRoster(st, arr, t, fadeMs) ==
    LET st1 == Altas(st, arr, 1)
    IN  Bajas(st1, (DOMAIN st1.cards) \ NowDevs(arr), t, fadeMs)

\* safeLayout(): one requestAnimationFrame unless one is already pending
SafeLayoutLock(lock) == TRUE
MutSafeLayoutRaf(lock, q) == Append(q, "layout")
SafeLayoutRaf(lock, q) == IF lock THEN q ELSE Append(q, "layout")

\* the live page is the document of the window: nothing of it runs once
\* window.location.replace has put another page in its place
Loaded == location = "/screen/live"

\* The value handed to reconcile is [isArray, items]: an array and its entries,
\* or something else (null, an object, a string) and whatever it holds.
ListOf(arr) == [isArray |-> TRUE, items |-> arr]

\* const arr = Array.isArray(list) ? list : []
MutAsArray(list) == list.items
AsArray(list) == IF list.isArray THEN list.items ELSE <<>>

\* a batch entry that is null (JSON null): it has no properties to read
NullEntry == [dev |-> "<null>", hr |-> 0]

\* arr.map((d) => d.dev) throws a TypeError on an entry that is null, before
\* reconcile has done anything
Throws(arr) == \E i \in 1..Len(arr) : arr[i] = NullEntry

\* reconcile(list), called dt ms after the previous call, up to its return or
\* to the exception it throws
ReconcileBody(list, dt) ==
    /\ Loaded
    /\ now + dt <= MaxTime
    /\ now' = now + dt
    /\ owed' = TRUE
    /\ IF Throws(AsArray(list))
       THEN UNCHANGED <<cards, els, grid, alive, lastCall, absentSince, raf, layoutLock>>
       ELSE /\ LET st == [cards |-> cards, els |-> els, grid |-> grid, alive |-> alive]
               IN  \E res \in {ReconcileRoster(st, AsArray(list), now', FadeMs(fadeCfg))} :
                       /\ cards' = res.cards
                       /\ els' = res.els
                       /\ grid' = res.grid
                       /\ alive' = res.alive
            /\ \E arr \in {AsArray(list)} :
                /\ lastCall' = [devs |-> NowDevs(arr),
                                dups |-> Cardinality(NowDevs(arr)) < Len(arr),
                                removed |-> {k \in Keys : alive'[k] < alive[k]},
                                isArray |-> list.isArray]
                /\ absentSince' = [k \in Keys |->
                                       IF k \in NowDevs(arr) \/ k \notin DOMAIN cards' THEN NULL
                                       ELSE IF absentSince[k] = NULL THEN now'
                                       ELSE absentSince[k]]
            /\ raf' = SafeLayoutRaf(layoutLock, raf)
            /\ layoutLock' = SafeLayoutLock(layoutLock)
    /\ UNCHANGED <<fadeCfg, laidOut>>

\* A value arrives dt ms after the previous one and reconcile(list) runs to
\* completion.
Reconcile(list, dt) ==
    /\ ReconcileBody(list, dt)
    /\ UNCHANGED <<viewVars, sumVars, netVars, uiVars>>

\* The callbacks of one animation frame, run in request order on
\* fr = [lock, next, rr, calls]: _layoutLock, the callbacks requested meanwhile
\* (they wait for the following frame), _resizeRAF and the layoutForCount calls.
\*   "layout": the callback of safeLayout   (layoutForCount(cards.size), unlock)
\*   "resize": the callback of onResize     (safeLayout(); _resizeRAF = 0)
RECURSIVE RunFrame(_, _, _, _)
RunFrame(fr, q, i, size) ==
    IF i > Len(q) THEN fr
    ELSE IF q[i] = "layout"
         THEN RunFrame([fr EXCEPT !.calls = Append(@, size), !.lock = FALSE], q, i + 1, size)
         ELSE RunFrame([fr EXCEPT !.next = SafeLayoutRaf(fr.lock, @),
                                  !.lock = SafeLayoutLock(fr.lock),
                                  !.rr = 0], q, i + 1, size)

\* The next animation frame: every callback requested before it runs.
Frame ==
    /\ Loaded
    /\ raf # <<>>
    /\ \E fr \in {RunFrame([lock |-> layoutLock, next |-> <<>>, rr |-> resizeRAF,
                             calls |-> <<>>], raf, 1, Cardinality(DOMAIN cards))} :
           /\ raf' = fr.next
           /\ layoutLock' = fr.lock
           /\ resizeRAF' = fr.rr
           /\ laidOut' = fr.calls
           /\ owed' = (owed /\ fr.calls = <<>>)
    /\ UNCHANGED <<now, fadeCfg, cards, els, grid, alive, lastCall, absentSince>>
    /\ UNCHANGED <<SESSION_ACTIVE, redirectScheduled, redirects, location, polls, lastSeen>>
    /\ UNCHANGED <<sumVars, netVars, uiVars>>

EmptyMap == [k \in {} |-> 0]

\* no fetchPersisted outcome handled yet
NoResp == [kind |-> "none", run |-> "null", nonEmpty |-> FALSE, cur |-> "null",
           at |-> 0, silent |-> FALSE, T0 |-> 0, nfetch |-> 0, renders |-> 0,
           hdr |-> <<>>, hint |-> ""]

\* The summary view is not open (the state of its module before it is loaded).
SumIdle ==
    /\ summaryRetryTimer = NULL
    /\ timers = {}
    /\ lastETag = <<>>
    /\ currentRunId = "null"
    /\ sgrid = [kind |-> "empty", text |-> "", run |-> "null", n |-> 0, layout |-> 0]
    /\ cycles = <<>>
    /\ lastResp = NoResp
    /\ tornDown = FALSE

\* no call of fitNick in progress
FitIdle == [pc |-> "idle"]

\* no call of layoutForCount made, the container not measured
LayIdle == [pc |-> "idle"]

\* fitNick and layoutForCount are not running
UiIdle == fit = FitIdle /\ lay = LayIdle

\* no call of fetchJSON in progress
ReqIdle == [pc |-> "idle"]

\* startStream() has not run: no stream, no poll, no tick timer
NetIdle ==
    /\ es = "idle"
    /\ inflight = 0
    /\ nextTimer = NULL
    /\ tickTimers = {}
    /\ lastTick = [list |-> [isNull |-> TRUE, isArray |-> FALSE, items |-> <<>>, length |-> 0],
                   threw |-> FALSE]
    /\ req = ReqIdle

LiveInit ==
    /\ NetIdle
    /\ cards = EmptyMap
    /\ els = EmptyMap
    /\ grid = <<>>
    /\ layoutLock = FALSE
    /\ raf = <<>>
    /\ laidOut = <<>>
    /\ alive = [k \in Keys |-> 0]
    /\ lastCall = [devs |-> {}, dups |-> FALSE, removed |-> {}, isArray |-> TRUE]
    /\ absentSince = [k \in Keys |-> NULL]
    /\ owed = FALSE

\* the module state of live.js before start() has been told anything
ViewInit ==
    /\ resizeRAF = 0
    /\ SESSION_ACTIVE = FALSE
    /\ redirectScheduled = FALSE
    /\ redirects = <<>>
    /\ location = "/screen/live"
    /\ polls = 0
    /\ lastSeen = "none"

\* The live view after start(): config loaded, no card yet.
InitLive ==
    /\ now = 0
    /\ fadeCfg \in FadeConfigs
    /\ LiveInit
    /\ ViewInit
    /\ SumIdle
    /\ UiIdle

NextLive ==
    \/ \E arr \in Batches, dt \in Delays : Reconcile(ListOf(arr), dt)
    \/ Frame

SpecLive == InitLive /\ [][NextLive]_vars

\* the batches of a feed that may hold null entries
FeedSamples == {[dev |-> "d1", hr |-> 100], [dev |-> "d2", hr |-> 100], NullEntry}
Feeds == SeqsUpTo(FeedSamples, MaxBatch)

NextFeed ==
    \/ \E arr \in Feeds, dt \in Delays : Reconcile(ListOf(arr), dt)
    \/ Frame

SpecFeed == InitLive /\ [][NextFeed]_vars

\* the page is shown: the browser runs the animation frames that were requested
FairSpecFeed == SpecFeed /\ WF_vars(Frame)

-----------------------------------------------------------------------------
(* Roster claims, checked under SpecLive.                                  *)

\* the batches with a given id set that do (do not) repeat an id
BatchesLike ==
    [c \in (SUBSET Keys) \X BOOLEAN |->
        {a \in Batches : NowDevs(a) = c[1] /\ (Cardinality(NowDevs(a)) < Len(a)) = c[2]}]
\* the step is a reconcile call (its batch is one of those lastCall' describes)
ReconcileStep ==
    /\ now' - now \in Delays
    /\ \E arr \in BatchesLike[<<lastCall'.devs, lastCall'.dups>>] :
           Reconcile(ListOf(arr), now' - now)
\* the step is a reconcile call whose batch holds (omits) dev k
CallWith(k) == k \in lastCall'.devs /\ ReconcileStep
CallWithout(k) == k \notin lastCall'.devs /\ ReconcileStep

\* the elements attached to the grid that show dev k
GridElsOf(k) == {i \in 1..Len(grid) : grid[i] \in DOMAIN els /\ els[grid[i]].dev = k}

\* C1: a card leaves the roster only in a reconcile call whose batch omits it,
\* in which it was already fading and now - fadeStart >= fadeDurationMs; the
\* first call that omits an Active card keeps it and starts its fade at now.
C1_RemovalNeedsElapsedFade ==
    [][\A k \in DOMAIN cards :
          /\ (k \notin DOMAIN cards' \/ alive'[k] < alive[k]) =>
                /\ cards[k].fadeStart # NULL
                /\ now' - cards[k].fadeStart >= FadeMs(fadeCfg)
                /\ CallWithout(k)
          /\ (cards[k].fadeStart = NULL /\ CallWithout(k)) =>
                /\ k \in DOMAIN cards'
                /\ cards'[k] = [el |-> cards[k].el, fadeStart |-> now']
                /\ \E i \in 1..Len(grid') : grid'[i] = cards[k].el
      ]_vars

\* C1 witness: a call has removed d1's card
C1_Witness == "d1" \in lastCall.removed

\* C2: a card whose dev has been absent from every batch since the call at t0
\* does not survive a call made at a time >= t0 + fadeDurationMs, its widget
\* leaves the grid with it, and buildCard calls and removals stay balanced
\* (each widget is destroyed exactly once, never a second time).
C2_AbsentCardDestroyedOnce ==
    \A k \in Keys :
        /\ (k \in DOMAIN cards /\ absentSince[k] # NULL) =>
               now - absentSince[k] < FadeMs(fadeCfg)
        /\ alive[k] = (IF k \in DOMAIN cards THEN 1 ELSE 0)
        /\ (k \notin DOMAIN cards) => GridElsOf(k) = {}

\* C2 witness: d1 was shown, then only empty batches came, and the last call
\* removed its card and left the roster empty
C2_Witness ==
    /\ lastCall.devs = {}
    /\ "d1" \in lastCall.removed
    /\ DOMAIN cards = {}
    /\ grid = <<>>

\* C3: when the dev of a fading card is in the batch, that call puts the card
\* back to Active: fadeStart cleared, opacity 1, transform reset, same widget,
\* still attached, nothing destroyed.
C3_ReappearRestores ==
    [][\A k \in DOMAIN cards :
          \/ /\ k \in DOMAIN cards'
             /\ cards'[k] = [el |-> cards[k].el, fadeStart |-> NULL]
             /\ els'[cards[k].el].opacity = One
             /\ els'[cards[k].el].transform = Unset
             /\ els'[cards[k].el].dev = k
             /\ \E i \in 1..Len(grid') : grid'[i] = cards[k].el
             /\ alive'[k] = alive[k]
          \/ ~(cards[k].fadeStart # NULL /\ CallWith(k))
      ]_vars

\* C3 witness: d1 is Active again after a fade (opacity "1" with the transform
\* cleared is what only the recovery branch writes)
C3_Witness ==
    /\ "d1" \in lastCall.devs
    /\ "d1" \in DOMAIN cards
    /\ cards["d1"].fadeStart = NULL
    /\ els[cards["d1"].el].opacity = One
    /\ els[cards["d1"].el].transform = Unset

\* C4: every dev of the roster has exactly one widget attached to the grid,
\* its own, and a dev without card has none; also after a batch that repeats
\* an id.
C4_OneWidgetPerDev ==
    \A k \in Keys :
        /\ Cardinality(GridElsOf(k)) = (IF k \in DOMAIN cards THEN 1 ELSE 0)
        /\ k \in DOMAIN cards =>
              /\ cards[k].el \in DOMAIN els
              /\ els[cards[k].el].dev = k
              /\ \E i \in 1..Len(grid) : grid[i] = cards[k].el
        /\ Len(grid) = Cardinality(DOMAIN cards)

\* C4 witness: the last batch held d1 twice and d1 has its card
C4_Witness ==
    /\ lastCall.dups
    /\ lastCall.devs = {"d1"}
    /\ "d1" \in DOMAIN cards

\* the sample of dev k that a batch leaves on k's card: its last one
LastSample(arr, k) ==
    arr[CHOOSE i \in 1..Len(arr) : arr[i].dev = k /\ \A j \in (i + 1)..Len(arr) : arr[j].dev # k]

\* the batches that, handed to the last reconcile call, give the ids it had and
\* the contents the cards now show; the batch of that call is one of them
RepeatsOfLast ==
    {a \in BatchesLike[<<lastCall.devs, lastCall.dups>>] :
        \A k \in lastCall.devs : LastSample(a, k).hr = els[cards[k].el].hr}

\* what reconcile(arr), called dt ms from now, makes of the roster
RosterAfter(arr, dt) ==
    ReconcileRoster([cards |-> cards, els |-> els, grid |-> grid, alive |-> alive],
                    arr, now + dt, FadeMs(fadeCfg))

-----------------------------------------------------------------------------
(* reconcile(list) on values that are not well-formed batches.             *)

\* a well-formed sample, and one whose `dev` field is missing
InputSamples == {[dev |-> "d1", hr |-> 100], [dev |-> Undefined, hr |-> 100]}
\* values that are not arrays: null or {} (nothing inside), and an object that
\* wraps a sample
NonLists == {[isArray |-> FALSE, items |-> a] : a \in SeqsUpTo(InputSamples, 1)}
Lists == {ListOf(a) : a \in SeqsUpTo(InputSamples, MaxBatch)} \cup NonLists

NextInput ==
    \/ \E list \in Lists, dt \in Delays : Reconcile(list, dt)
    \/ Frame

SpecInput == InitLive /\ [][NextInput]_vars

\* C25: an entry without an id creates no card.
C25_MalformedEntrySkipped == Undefined \notin DOMAIN cards

\* C26: reconcile called with a value that is not a list does what it does with
\* an empty batch: it creates and updates no card, every card that was shown
\* starts fading now, every card whose fade time has elapsed is removed and
\* detached, the others keep their fadeStart and contents, and a layout pass
\* is requested.
C26_NonListIsEmptyBatch ==
    [][(now' - now \in Delays /\ \E l \in NonLists : Reconcile(l, now' - now)) =>
          /\ \E r \in {ReconcileRoster([cards |-> cards, els |-> els, grid |-> grid,
                                         alive |-> alive], <<>>, now', FadeMs(fadeCfg))} :
                 cards' = r.cards /\ els' = r.els /\ grid' = r.grid
          /\ lastCall'.devs = {}
          /\ DOMAIN cards' \subseteq DOMAIN cards
          /\ \A k \in DOMAIN cards :
                 IF cards[k].fadeStart = NULL
                 THEN k \in DOMAIN cards' /\ cards'[k].fadeStart = now'
                      /\ els'[cards[k].el] = els[cards[k].el]
                 ELSE IF now' - cards[k].fadeStart >= FadeMs(fadeCfg)
                      THEN k \notin DOMAIN cards' /\ GridElsOf(k)' = {}
                      ELSE k \in DOMAIN cards' /\ cards'[k] = cards[k]
                           /\ els'[cards[k].el].hr = els[cards[k].el].hr
          /\ layoutLock'
       ]_vars

\* C26 witness: the last call was handed a value that is not a list; d1, shown
\* until then, started fading at that call
C26_Witness ==
    /\ ~lastCall.isArray
    /\ "d1" \in DOMAIN cards
    /\ cards["d1"].fadeStart = now
    /\ now > 0

-----------------------------------------------------------------------------
(* LIVE view: session status, redirect to the summary, layout requests.    *)

\* the body of /control/status, or the data of a pushed status event
StatusObjs == [ok : {TRUE}, active : BOOLEAN, show_countdown : BOOLEAN]
\* fetchJSON gave null (network error, timeout, HTTP error, bad JSON)
NoStatus == [ok |-> FALSE, active |-> FALSE, show_countdown |-> FALSE]
Replies == StatusObjs \cup {NoStatus}

\* what a status tells the view
KindOf(s) == IF s.active THEN "active"
             ELSE IF s.show_countdown THEN "countdown" ELSE "inactive"

\* v = [active, scheduled, redirects]: SESSION_ACTIVE, _redirectScheduled and
\* the timeouts set so far
gotoSummarySoon(v) ==
    IF v.scheduled THEN v
    ELSE [v EXCEPT !.scheduled = TRUE,
                   !.redirects = Append(@, [cancelled |-> FALSE, fired |-> FALSE])]

\* the flag is reset; the timeouts are left to fire (each pending one is marked
\* as cancelled, for the record)
cancelPendingRedirect(v) ==
    [v EXCEPT !.scheduled = FALSE,
              !.redirects = [i \in DOMAIN @ |-> [@[i] EXCEPT !.cancelled = TRUE]]]

\* pollStatus() after its await, for a reply s
pollStatus(v, s) ==
    IF ~s.ok THEN [v EXCEPT !.active = FALSE]
    ELSE LET wasActive == v.active
             v1 == [v EXCEPT !.active = s.active]
         IN  IF ~s.active /\ s.show_countdown THEN cancelPendingRedirect(v1)
             ELSE IF s.active THEN cancelPendingRedirect(v1)
             ELSE IF wasActive /\ ~v1.scheduled THEN gotoSummarySoon(v1)
             ELSE v1

\* the listener of the pushed "status" events, for the event data s
onStatusEvent(v, s) ==
    LET wasActive == v.active IN
    IF ~s.active /\ s.show_countdown
    THEN [cancelPendingRedirect(v) EXCEPT !.active = FALSE]
    ELSE IF s.active
         THEN [cancelPendingRedirect(v) EXCEPT !.active = TRUE]
         ELSE LET v1 == [v EXCEPT !.active = FALSE]
              IN  IF wasActive /\ ~v1.scheduled THEN gotoSummarySoon(v1) ELSE v1

ViewState == [active |-> SESSION_ACTIVE, scheduled |-> redirectScheduled,
              redirects |-> redirects]

SetViewState(v) ==
    /\ Len(v.redirects) <= MaxRedirects
    /\ SESSION_ACTIVE' = v.active
    /\ redirectScheduled' = v.scheduled
    /\ redirects' = v.redirects

\* the status interval ticks while the page is visible: pollStatus() is called
\* and awaits its reply
PollStart ==
    /\ Loaded
    /\ polls < MaxPolls
    /\ polls' = polls + 1
    /\ UNCHANGED <<now, liveVars, sumVars, netVars, uiVars>>
    /\ UNCHANGED <<resizeRAF, SESSION_ACTIVE, redirectScheduled, redirects, location, lastSeen>>

\* a pollStatus() call gets its reply s and runs to its end
PollDone(s) ==
    /\ Loaded
    /\ polls > 0
    /\ polls' = polls - 1
    /\ SetViewState(pollStatus(ViewState, s))
    /\ lastSeen' = IF s.ok THEN KindOf(s) ELSE lastSeen
    /\ UNCHANGED <<now, liveVars, sumVars, netVars, uiVars>>
    /\ UNCHANGED <<resizeRAF, location>>

\* the server pushes a status event
StatusEvent(s) ==
    /\ Loaded
    /\ SetViewState(onStatusEvent(ViewState, s))
    /\ lastSeen' = KindOf(s)
    /\ UNCHANGED <<now, liveVars, sumVars, netVars, uiVars>>
    /\ UNCHANGED <<resizeRAF, location, polls>>

\* a timeout set by gotoSummarySoon fires: window.location.replace("/screen/summary")
RedirectFires(i) ==
    /\ Loaded
    /\ ~redirects[i].fired
    /\ redirects' = [redirects EXCEPT ![i].fired = TRUE]
    /\ location' = "/screen/summary"
    /\ UNCHANGED <<now, liveVars, sumVars, netVars, uiVars>>
    /\ UNCHANGED <<resizeRAF, SESSION_ACTIVE, redirectScheduled, polls, lastSeen>>

\* visibilitychange, the page being visible: safeLayout(); pollStatus()
OnVisible ==
    /\ Loaded
    /\ polls < MaxPolls
    /\ polls' = polls + 1
    /\ raf' = SafeLayoutRaf(layoutLock, raf)
    /\ layoutLock' = SafeLayoutLock(layoutLock)
    /\ UNCHANGED <<now, fadeCfg, cards, els, grid, laidOut, alive, lastCall, absentSince,
                   owed>>
    /\ UNCHANGED <<resizeRAF, SESSION_ACTIVE, redirectScheduled, redirects, location, lastSeen>>
    /\ UNCHANGED <<sumVars, netVars, uiVars>>

\* cancelAnimationFrame(handle)
CancelResize(q, handle) == IF handle # 0 THEN SelectSeq(q, LAMBDA c : c # "resize") ELSE q

\* resize
OnResize ==
    /\ Loaded
    /\ raf' = Append(CancelResize(raf, resizeRAF), "resize")
    /\ resizeRAF' = 1
    /\ UNCHANGED <<now, fadeCfg, cards, els, grid, layoutLock, laidOut, alive, lastCall,
                   absentSince, owed>>
    /\ UNCHANGED <<SESSION_ACTIVE, redirectScheduled, redirects, location, polls, lastSeen>>
    /\ UNCHANGED <<sumVars, netVars, uiVars>>

\* the batches and the pace of the view model: no device, or d1
ViewBatches == SeqsUpTo({[dev |-> "d1", hr |-> 100]}, 1)
ViewDelays == {0}

\* The live view once start() has handled the reply s0 of its first
\* pollStatus() and has added its listeners and timers.
InitView ==
    /\ now = 0
    /\ fadeCfg = 0
    /\ LiveInit
    /\ resizeRAF = 0
    /\ location = "/screen/live"
    /\ polls = 0
    /\ \E s0 \in Replies :
           /\ \E v \in {pollStatus([active |-> FALSE, scheduled |-> FALSE,
                                     redirects |-> <<>>], s0)} :
                  /\ SESSION_ACTIVE = v.active
                  /\ redirectScheduled = v.scheduled
                  /\ redirects = v.redirects
           /\ lastSeen = IF s0.ok THEN KindOf(s0) ELSE "none"
    /\ SumIdle
    /\ UiIdle

NextView ==
    \/ \E arr \in ViewBatches, dt \in ViewDelays : Reconcile(ListOf(arr), dt)
    \/ Frame
    \/ OnResize
    \/ OnVisible
    \/ PollStart
    \/ \E s \in Replies : PollDone(s)
    \/ \E s \in StatusObjs : StatusEvent(s)
    \/ \E i \in DOMAIN redirects : RedirectFires(i)

SpecView == InitView /\ [][NextView]_vars

-----------------------------------------------------------------------------
(* Status and layout-request claims, checked under SpecView.               *)

\* C27: a redirect timeout that cancelPendingRedirect cancelled before it
\* fired does not navigate.
C27_CancelledRedirectNeverFires ==
    \A i \in DOMAIN redirects : redirects[i].fired => ~redirects[i].cancelled

\* C28: when the view is told "inactive, no countdown" and the status it was
\* told before that was "active", a redirect to the summary is scheduled.
C28_EndOfSessionSchedulesRedirect ==
    [][(lastSeen = "active" /\ lastSeen' = "inactive") =>
          /\ redirectScheduled'
          /\ \E i \in DOMAIN redirects' :
                 ~redirects'[i].cancelled /\ ~redirects'[i].fired
       ]_vars

\* the callbacks of one kind waiting for the next frame
Pending(kind) == {i \in 1..Len(raf) : raf[i] = kind}

\* C29 as stated: at most one layout callback and one resize callback wait for
\* the next frame, and a frame for which anything was requested makes exactly
\* one layout pass.
C29_OnePassPerFrame ==
    /\ [](Cardinality(Pending("layout")) <= 1 /\ Cardinality(Pending("resize")) <= 1)
    /\ [][Frame => Len(laidOut') = 1]_vars

\* C29, amended: at most one layout callback (exactly when _layoutLock is set)
\* and at most one resize callback (exactly when _resizeRAF is set) wait for
\* the next frame; a resize request replaces the waiting resize callback and
\* goes to the end of the queue; a frame makes exactly one layout pass when a
\* layout callback was waiting and none otherwise, and a resize callback that
\* ran with the lock free leaves one layout callback for the following frame.
C29_CoalescedLayout ==
    /\ [](/\ Cardinality(Pending("layout")) <= 1
          /\ Cardinality(Pending("resize")) <= 1
          /\ layoutLock <=> Pending("layout") # {}
          /\ resizeRAF # 0 <=> Pending("resize") # {})
    /\ [][OnResize => /\ Cardinality(Pending("resize"))' = 1
                      /\ raf'[Len(raf')] = "resize"
                      /\ Pending("layout")' # {} <=> Pending("layout") # {}]_vars
    /\ [][Frame => /\ Len(laidOut') = Cardinality(Pending("layout"))
                   /\ \A i \in 1..Len(laidOut') : laidOut'[i] = Cardinality(DOMAIN cards)
                   /\ raf' = IF raf \in {<<"resize">>, <<"layout", "resize">>}
                             THEN <<"layout">> ELSE <<>>]_vars

\* C29 witness: a frame has made its one pass for the card of d1, and since
\* then a layout pass and a resize have been requested
C29_Witness ==
    /\ laidOut = <<1>>
    /\ raf = <<"layout", "resize">>
    /\ layoutLock
    /\ resizeRAF # 0

-----------------------------------------------------------------------------
(* SUMMARY view      src/app/static/js/views/summary.js                    *)

\* const MAX_WAIT = 15000
MAX_WAIT == 15000
\* await waitMs(2000)
WAIT_MS == 2000
\* scheduleSilentRetry(5)
RETRY_SEC == 5

\* time a request takes, from fetch() to its outcome
Latencies == {0, 16000}

\* Header values are sequences of characters; <<>> is a header that is not
\* there (headers.get gives null) and also JS null for lastETag / etag.
Q == "\""
ETagHeaders == {<<>>, <<Q, "e", "1", Q>>, <<" ", "W", "/", Q, "e", "2", Q>>}
\* Retry-After values ("": no such header)
RetryAfterHeaders == {"", "0", "4", "soon"}

RECURSIVE TrimLeft(_)
TrimLeft(str) == IF str # <<>> /\ Head(str) = " " THEN TrimLeft(Tail(str)) ELSE str
RECURSIVE TrimRight(_)
TrimRight(str) ==
    IF str # <<>> /\ str[Len(str)] = " " THEN TrimRight(SubSeq(str, 1, Len(str) - 1)) ELSE str

\* (res.headers.get("ETag") || "").replaceAll('"', "").trim() || null
MutNewETag(h) == h
NewETag(h) == TrimRight(TrimLeft(SelectSeq(h, LAMBDA c : c # Q)))

\* Number(str), for the Retry-After values of the model
NumberOf(str) ==
    CASE str = "0" -> [finite |-> TRUE, v |-> 0]
      [] str = "1" -> [finite |-> TRUE, v |-> 1]
      [] str = "2" -> [finite |-> TRUE, v |-> 2]
      [] str = "3" -> [finite |-> TRUE, v |-> 3]
      [] str = "4" -> [finite |-> TRUE, v |-> 4]
      [] OTHER     -> [finite |-> FALSE, v |-> 0]

\* const ra = Number(res.headers.get("Retry-After") || "2");
\* retryAfter: Number.isFinite(ra) ? ra : 2
RetryAfter(h) ==
    LET ra == NumberOf(IF h = "" THEN "2" ELSE h) IN IF ra.finite THEN ra.v ELSE 2

\* A response body: not JSON (res.json() fails -> data null), or an object with
\* run_id, id ("null": field missing) and devices (-1: not an array, else its
\* length; nullRow: one of its rows is null)
NoBody == [parsed |-> FALSE, run_id |-> "null", id |-> "null", devices |-> -1, nullRow |-> FALSE]
Bodies == {NoBody} \cup
          [parsed : {TRUE}, run_id : {"null", "A", "B"}, id : {"null", "B"}, devices : {-1, 0, 2},
           nullRow : {FALSE}]

\* What the server (or the network: status 0, fetch rejects) answers to a request
Responses ==
    {[status |-> 204, retryAfter |-> h, etag |-> <<>>, body |-> NoBody] : h \in RetryAfterHeaders}
    \cup {[status |-> st, retryAfter |-> "", etag |-> <<>>, body |-> NoBody] : st \in {304, 500, 0}}
    \cup {[status |-> 200, retryAfter |-> "", etag |-> h, body |-> b] : h \in ETagHeaders, b \in Bodies}

\* fetchPersisted(etag): the result kind for a response ("throw": fetch rejected)
fetchPersisted(r) ==
    IF r.status = 0
    THEN [kind |-> "throw", retryAfter |-> 0, data |-> NoBody, etag |-> <<>>]
    ELSE IF r.status = 204
    THEN [kind |-> "pending", retryAfter |-> RetryAfter(r.retryAfter), data |-> NoBody, etag |-> <<>>]
    ELSE IF r.status = 304
    THEN [kind |-> "not_modified", retryAfter |-> 0, data |-> NoBody, etag |-> <<>>]
    ELSE IF ~(r.status >= 200 /\ r.status <= 299)
    THEN [kind |-> "error", retryAfter |-> 0, data |-> NoBody, etag |-> <<>>]
    ELSE [kind |-> "ok", retryAfter |-> 0, data |-> r.body, etag |-> NewETag(r.etag)]

\* const runId = payload?.run_id || payload?.id || null
RunIdOf(payload) ==
    IF ~payload.parsed THEN "null"
    ELSE IF payload.run_id # "null" THEN payload.run_id ELSE payload.id

\* !payload || !Array.isArray(payload.devices) || !payload.devices.length
MutIsEmptyPayload(payload) == ~payload.parsed \/ payload.devices < 0
IsEmptyPayload(payload) == ~payload.parsed \/ payload.devices < 1

\* currentRunId && runId && runId === currentRunId
MutIsStale(cur, runId) == FALSE
MutIsStaleNoRun(cur, runId) == runId = cur
IsStale(cur, runId) == cur # "null" /\ runId # "null" /\ runId = cur

\* renderSummary throws a TypeError when a row of payload.devices is null:
\* String(a.dev) in the sort, or devRow.dev in the loop, after grid.innerHTML = ""
RenderThrows(payload) == payload.nullRow

\* the branch of the loop body that handles a fetchPersisted result
\* ("broken": the accept branch left by the exception of renderSummary)
Branch(res, cur) ==
    IF res.kind \in {"throw", "pending", "not_modified", "error"} THEN res.kind
    ELSE IF IsEmptyPayload(res.data) THEN "empty"
    ELSE IF IsStale(cur, RunIdOf(res.data)) THEN "stale"
    ELSE IF RenderThrows(res.data) THEN "broken"
    ELSE "accept"

\* the branches that leave the function (`return`)
MutEnds(branch) == branch \in {"stale", "accept"}
Ends(branch) == branch \in {"error", "stale", "accept"}
\* the branches that call scheduleSilentRetry(5)
MutRetries(branch) == branch \in {"stale", "accept"}
Retries(branch) == branch \in {"error", "stale", "accept"}
\* the branch in which renderSummary(payload, runId) runs to its end
Renders(branch) == branch = "accept"
\* the branches that reach lastETag = res.etag || null
StoresETag(branch) == branch \in {"accept", "broken"}
\* grid.innerHTML = "", and nothing appended
ClearGrid(g) == [g EXCEPT !.kind = "empty", !.text = "", !.run = "null", !.n = 0]

\* the argument of waitMs in a branch that waits and loops
MutWaitOf(res, branch) == WAIT_MS
WaitOf(res, branch) ==
    IF branch = "pending"
    THEN (IF res.retryAfter = 0 THEN 2 ELSE res.retryAfter) * 1000
    ELSE WAIT_MS

\* holder.textContent written by a branch ("": the branch writes none)
TextOf(branch) ==
    CASE branch = "pending"      -> "Generando resumen..."
      [] branch = "not_modified" -> "Esperando nuevo resumen..."
      [] branch = "error"        -> "Error cargando resumen."
      [] branch = "empty"        -> "Resumen vacio. Esperando datos..."
      [] branch = "timeout"      -> "Resumen no disponible aun..."
      [] OTHER                   -> ""

\* if (holder) holder.textContent = text   (holder is null in a silent cycle;
\* once the grid was re-rendered the holder is detached and the write shows nowhere)
MutSetHolder(g, c, text) ==
    IF text = "" \/ g.kind # "holder" THEN g ELSE [g EXCEPT !.text = text]
SetHolder(g, c, text) ==
    IF c.silent \/ text = "" \/ g.kind # "holder" THEN g ELSE [g EXCEPT !.text = text]

\* showHolder(text)
showHolder(text) == [kind |-> "holder", text |-> text, run |-> "null", n |-> 0, layout |-> 1]

\* renderSummary(payload, runId): the grid is rebuilt with one card per device
renderSummary(payload, runId) ==
    [kind |-> "cards", text |-> "", run |-> runId, n |-> payload.devices,
     layout |-> payload.devices]

\* clearTimeout(handle)
ClearTimeout(ts, h) == {t \in ts : t.id # h}

\* scheduleSilentRetry(sec) at time t: [timers, handle] afterwards
ScheduleSilentRetry(ts, h, sec, t) ==
    LET cleared == ClearTimeout(ts, h)
        id == CHOOSE n \in 1..(Cardinality(cleared) + 1) : n \notin {x.id : x \in cleared}
        ms == (IF sec < 1 THEN 1 ELSE sec) * 1000
    IN  [timers |-> cleared \cup {[id |-> id, due |-> t + ms]}, handle |-> id]

\* while (Date.now() - T0 < MAX_WAIT)
MutLoopContinues(t, T0) == t < MAX_WAIT
LoopContinues(t, T0) == t - T0 < MAX_WAIT

RemoveAt(seq, i) == SubSeq(seq, 1, i - 1) \o SubSeq(seq, i + 1, Len(seq))

\* The loop head reached by cycle i at time t: the next fetchPersisted is
\* issued (it takes lat ms), or the cycle times out.
LoopHead(st, i, t, lat) ==
    LET c == st.cycles[i] IN
    IF LoopContinues(t, c.T0)
    THEN [st EXCEPT !.cycles[i] = [c EXCEPT !.pc = "fetch", !.at = t, !.due = t + lat,
                                             !.nfetch = @ + 1]]
    ELSE LET r == ScheduleSilentRetry(st.timers, st.handle, RETRY_SEC, t) IN
         [st EXCEPT !.cycles = RemoveAt(@, i),
                    !.sgrid = SetHolder(@, c, TextOf("timeout")),
                    !.timers = r.timers,
                    !.handle = r.handle]

\* timers and promises resolve in time order
Dues == {cycles[i].due : i \in 1..Len(cycles)} \cup {t.due : t \in timers}
IsNext(d) == \A x \in Dues : d <= x

SumState == [cycles |-> cycles, timers |-> timers, handle |-> summaryRetryTimer, sgrid |-> sgrid]

SetSumState(st) ==
    \E s \in {st} :
        /\ cycles' = s.cycles
        /\ timers' = s.timers
        /\ summaryRetryTimer' = s.handle
        /\ sgrid' = s.sgrid

\* pokeBackendToGenerate() settles (either way): let etag = lastETag; T0 = now
PokeDone(i, lat) ==
    /\ cycles[i].pc = "poke"
    /\ IsNext(cycles[i].due)
    /\ now' = cycles[i].due
    /\ SetSumState(LoopHead([SumState EXCEPT !.cycles[i].etag = lastETag,
                                             !.cycles[i].T0 = now'], i, now', lat))
    /\ UNCHANGED <<lastETag, currentRunId, lastResp, tornDown>>
    /\ UNCHANGED <<liveVars, viewVars, netVars, uiVars>>

\* a waitMs() of cycle i is over: back to the loop head
WaitDone(i, lat) ==
    /\ cycles[i].pc = "wait"
    /\ IsNext(cycles[i].due)
    /\ now' = cycles[i].due
    /\ SetSumState(LoopHead(SumState, i, now', lat))
    /\ UNCHANGED <<lastETag, currentRunId, lastResp, tornDown>>
    /\ UNCHANGED <<liveVars, viewVars, netVars, uiVars>>

\* the silent-retry timeout tm fires: loadSummaryWithPolling(true)
RetryFires(tm, lat) ==
    /\ IsNext(tm.due)
    /\ tm.due <= MaxStart
    /\ now' = tm.due
    /\ LET c == [pc |-> "start", silent |-> TRUE, etag |-> lastETag, T0 |-> now',
                 at |-> now', due |-> now', nfetch |-> 0]
           st == [SumState EXCEPT !.timers = @ \ {tm}, !.cycles = Append(@, c)]
       IN  SetSumState(LoopHead(st, Len(st.cycles), now', lat))
    /\ UNCHANGED <<lastETag, currentRunId, lastResp, tornDown>>
    /\ UNCHANGED <<liveVars, viewVars, netVars, uiVars>>

\* the fetchPersisted of cycle i settles with response resp, and the loop body
\* runs up to its next await or its return
FetchDone(i, resp) ==
    /\ cycles[i].pc = "fetch"
    /\ IsNext(cycles[i].due)
    /\ now' = cycles[i].due
    /\ LET c == cycles[i]
           res == fetchPersisted(resp)
           b == Branch(res, currentRunId)
           runId == RunIdOf(res.data)
           r == IF Retries(b)
                THEN ScheduleSilentRetry(timers, summaryRetryTimer, RETRY_SEC, now')
                ELSE [timers |-> timers, handle |-> summaryRetryTimer]
       IN  /\ lastETag' = IF StoresETag(b) THEN res.etag ELSE lastETag
           /\ currentRunId' = IF Renders(b) THEN runId ELSE currentRunId
           /\ sgrid' = IF Renders(b) THEN renderSummary(res.data, runId)
                       ELSE IF b = "broken" THEN ClearGrid(sgrid)
                       ELSE SetHolder(sgrid, c, TextOf(b))
           /\ timers' = r.timers
           /\ summaryRetryTimer' = r.handle
           /\ cycles' = IF Ends(b) THEN RemoveAt(cycles, i)
                        ELSE [cycles EXCEPT ![i].pc = "wait", ![i].at = now',
                                            ![i].due = now' + WaitOf(res, b)]
           /\ lastResp' = [kind |-> res.kind, run |-> runId,
                           nonEmpty |-> res.data.parsed /\ res.data.devices >= 1,
                           cur |-> currentRunId, at |-> now', silent |-> c.silent,
                           T0 |-> c.T0, nfetch |-> c.nfetch,
                           renders |-> IF Renders(b) THEN 1 ELSE 0,
                           hdr |-> IF Renders(b) THEN resp.etag ELSE <<>>,
                           hint |-> resp.retryAfter]
    /\ UNCHANGED <<tornDown, liveVars, viewVars, netVars, uiVars>>

\* beforeunload: stopTimers(). clearTimeout(summaryRetryTimer) takes the pending
\* silent retry away; the cycles in progress and their waitMs timeouts are not
\* touched, and the page goes on running until its replacement has loaded.
StopTimers ==
    /\ ~tornDown
    /\ tornDown' = TRUE
    /\ timers' = ClearTimeout(timers, summaryRetryTimer)
    /\ UNCHANGED <<now, summaryRetryTimer, lastETag, currentRunId, sgrid, cycles, lastResp>>
    /\ UNCHANGED <<liveVars, viewVars, netVars, uiVars>>

\* The summary view right after its module ran: loadSummaryWithPolling(false)
\* has shown the placeholder and awaits pokeBackendToGenerate().
InitSummary ==
    /\ now = 0
    /\ fadeCfg = 0
    /\ LiveInit
    /\ ViewInit
    /\ summaryRetryTimer = NULL
    /\ timers = {}
    /\ lastETag = <<>>
    /\ currentRunId = "null"
    /\ sgrid = showHolder("Generando resumen...")
    /\ \E lat \in Latencies :
          cycles = <<[pc |-> "poke", silent |-> FALSE, etag |-> <<>>, T0 |-> NULL,
                      at |-> 0, due |-> lat, nfetch |-> 0]>>
    /\ lastResp = NoResp
    /\ tornDown = FALSE
    /\ UiIdle

NextSummary ==
    \/ \E i \in 1..Len(cycles), lat \in Latencies : PokeDone(i, lat)
    \/ \E i \in 1..Len(cycles), resp \in Responses : FetchDone(i, resp)
    \/ \E i \in 1..Len(cycles), lat \in Latencies : WaitDone(i, lat)
    \/ \E tm \in timers, lat \in Latencies : RetryFires(tm, lat)

SpecSummary == InitSummary /\ [][NextSummary]_vars

\* a server whose snapshots may hold a null device row
RowResponses ==
    {[status |-> 304, retryAfter |-> "", etag |-> <<>>, body |-> NoBody]}
    \cup {[status |-> 200, retryAfter |-> "", etag |-> <<Q, "e", "1", Q>>,
           body |-> [parsed |-> TRUE, run_id |-> r, id |-> "null", devices |-> 2,
                     nullRow |-> b]] : r \in {"A", "B"}, b \in BOOLEAN}

NextRows ==
    \/ \E i \in 1..Len(cycles), lat \in Latencies : PokeDone(i, lat)
    \/ \E i \in 1..Len(cycles), resp \in RowResponses : FetchDone(i, resp)
    \/ \E i \in 1..Len(cycles), lat \in Latencies : WaitDone(i, lat)
    \/ \E tm \in timers, lat \in Latencies : RetryFires(tm, lat)

SpecRows == InitSummary /\ [][NextRows]_vars

\* the event loop runs every timer that is due and every settled request
FairSpecSummary == SpecSummary /\ WF_vars(NextSummary)

\* the summary view, left at some time
NextTeardown ==
    \/ NextSummary
    \/ StopTimers

SpecTeardown == InitSummary /\ [][NextTeardown]_vars

\* the requests for the snapshot that await their response
FetchesInFlight == {cycles[i] : i \in {j \in 1..Len(cycles) : cycles[j].pc = "fetch"}}

\* C30: once stopTimers has run, no silent-retry timeout is pending, none is
\* armed, and no cycle issues a fetch.
C30_NothingAfterTeardown ==
    /\ [](tornDown => timers = {})
    /\ [][tornDown => FetchesInFlight' \subseteq FetchesInFlight]_vars

-----------------------------------------------------------------------------
(* Acquisition claims, checked under SpecSummary / FairSpecSummary.        *)

\* a cycle handled a fetchPersisted outcome in this step
Handled == lastResp' # lastResp
\* what the grid displays, apart from the placeholder's text
Shown(g) == <<g.kind, g.run, g.n, g.layout>>
\* the one silent-retry timer armed in this step, due ms from now
RetryArmed(ms) == timers' = {[id |-> summaryRetryTimer', due |-> now' + ms]}

\* C5: handling Pending, NotModified or Ok with zero devices never renders;
\* handling Ok with devices and a runId other than the last rendered one calls
\* the renderer exactly once, with that snapshot; and the displayed snapshot
\* changes in no other step (so not before that response).
C5_RenderOnceOnFreshOk ==
    [][/\ (Handled /\ (\/ lastResp'.kind \in {"pending", "not_modified"}
                       \/ (lastResp'.kind = "ok" /\ ~lastResp'.nonEmpty))) =>
              /\ lastResp'.renders = 0
              /\ Shown(sgrid') = Shown(sgrid)
              /\ currentRunId' = currentRunId
              /\ Len(cycles') = Len(cycles)
       /\ (Handled /\ lastResp'.kind = "ok" /\ lastResp'.nonEmpty
                   /\ lastResp'.run # currentRunId) =>
              /\ lastResp'.renders = 1
              /\ sgrid'.kind = "cards"
              /\ sgrid'.run = lastResp'.run
              /\ sgrid'.n >= 1
              /\ currentRunId' = lastResp'.run
       /\ (~Handled) => (Shown(sgrid') = Shown(sgrid) /\ currentRunId' = currentRunId)
      ]_vars

\* C5 witness: the third answer of a cycle was Ok(run A, devices) and was rendered
C5_Witness ==
    /\ lastResp.kind = "ok"
    /\ lastResp.nonEmpty
    /\ lastResp.run = "A"
    /\ lastResp.nfetch = 3
    /\ lastResp.renders = 1
    /\ sgrid.kind = "cards"
    /\ sgrid.run = "A"

\* C6: a snapshot is not rendered before 5000 ms (MIN_SHOW_MS) have passed
\* since the polling of its cycle started.
C6_AntiFlickerGate ==
    lastResp.renders = 1 => lastResp.at - lastResp.T0 >= 5000

\* C7: Ok with devices whose runId is the last rendered one: no render, the
\* grid, lastETag and currentRunId stay as they are, the cycle ends and one
\* silent retry is armed 5000 ms ahead.
C7_StaleRunNotRendered ==
    [][(Handled /\ lastResp'.kind = "ok" /\ lastResp'.nonEmpty
                /\ currentRunId # "null" /\ lastResp'.run = currentRunId) =>
          /\ lastResp'.renders = 0
          /\ sgrid' = sgrid
          /\ lastETag' = lastETag
          /\ currentRunId' = currentRunId
          /\ Len(cycles') = Len(cycles) - 1
          /\ RetryArmed(5000)
      ]_vars

\* C7 witness: a silent cycle got run A again while A was displayed
C7_Witness ==
    /\ lastResp.kind = "ok"
    /\ lastResp.nonEmpty
    /\ lastResp.silent
    /\ lastResp.run = "A"
    /\ lastResp.cur = "A"
    /\ lastResp.renders = 0
    /\ sgrid.run = "A"
    /\ cycles = <<>>

\* C8: never two polling loops in progress, never two retry timers pending,
\* the pending timer is the one summaryRetryTimer holds (so arming the next
\* one cancels it), and no timer is pending while a cycle polls or waits.
C8_OneCycleOneTimer ==
    /\ Len(cycles) <= 1
    /\ Cardinality(timers) <= 1
    /\ \A t \in timers : t.id = summaryRetryTimer
    /\ (timers # {}) => (cycles = <<>>)

\* C8 witness: a cycle started by the retry timer is over and has armed the
\* next retry
C8_Witness ==
    /\ lastResp.silent
    /\ cycles = <<>>
    /\ Cardinality(timers) = 1

TimesOut(i) ==
    /\ i \in 1..Len(cycles)
    /\ cycles[i].pc \in {"poke", "wait"}
    /\ now' = cycles[i].due
    /\ cycles' = RemoveAt(cycles, i)
    /\ ~Handled

Accepted ==
    /\ Handled
    /\ lastResp'.kind = "ok"
    /\ lastResp'.nonEmpty
    /\ ~(currentRunId # "null" /\ lastResp'.run = currentRunId)

\* the ETag a header carries: the header without its quotes and outer blanks
TagOf(hdr) ==
    CASE hdr = <<>>                             -> <<>>
      [] hdr = <<Q, "e", "1", Q>>               -> <<"e", "1">>
      [] hdr = <<" ", "W", "/", Q, "e", "2", Q>> -> <<"W", "/", "e", "2">>

SilentStep == cycles = <<>> \/ cycles[1].silent

C13_SettleDelayBeforePolling ==
    \A i \in 1..Len(cycles) :
        (cycles[i].pc = "fetch" /\ ~cycles[i].silent /\ cycles[i].nfetch = 1) =>
            cycles[i].at >= 3000

\* the wait a Pending response with Retry-After header h asks for, in ms
HintMs(h) ==
    CASE h = "4" -> 4000
      [] h = "0" -> 0
      [] OTHER   -> 2000

\* the cycle that handled a response in this step is still in progress and
\* waits ms before its next pass through the loop head
WaitsFor(ms) ==
    /\ Len(cycles') = Len(cycles)
    /\ \E i \in 1..Len(cycles) :
          /\ cycles[i].pc = "fetch"
          /\ cycles'[i].pc = "wait"
          /\ cycles'[i].due = now' + ms

\* C14 as stated: after Pending the cycle waits the hinted number of seconds
\* (2 s without hint), after NotModified or an empty Ok 2000 ms.
C14_WaitIsTheHint ==
    [][/\ (Handled /\ lastResp'.kind = "pending") => WaitsFor(HintMs(lastResp'.hint))
       /\ (Handled /\ (\/ lastResp'.kind = "not_modified"
                       \/ (lastResp'.kind = "ok" /\ ~lastResp'.nonEmpty))) => WaitsFor(2000)
      ]_vars

\* C14 (amended): after Pending the cycle waits the hinted number of seconds
\* when the hint is a positive number, and 2 s when the hint is absent, zero
\* or not a number; after NotModified or an Ok with zero devices it waits
\* 2000 ms. None of the three ends the cycle, nothing is rendered, no retry is
\* armed, and the wait over, the next fetch is issued at once unless MAX_WAIT
\* has passed.
C14_WaitThenRetry ==
    [][/\ (Handled /\ lastResp'.kind = "pending") =>
              /\ WaitsFor(IF lastResp'.hint = "4" THEN 4000 ELSE 2000)
              /\ timers' = timers
              /\ lastResp'.renders = 0
       /\ (Handled /\ (\/ lastResp'.kind = "not_modified"
                       \/ (lastResp'.kind = "ok" /\ ~lastResp'.nonEmpty))) =>
              /\ WaitsFor(2000)
              /\ timers' = timers
              /\ lastResp'.renders = 0
       /\ \A i \in 1..Len(cycles) :
             (cycles[i].pc = "wait" /\ now' = cycles[i].due /\ ~Handled
                  /\ cycles[i].due - cycles[i].T0 < MAX_WAIT) =>
                 /\ Len(cycles') = Len(cycles)
                 /\ cycles'[i].pc = "fetch"
                 /\ cycles'[i].at = cycles[i].due
                 /\ cycles'[i].nfetch = cycles[i].nfetch + 1
      ]_vars

\* C14 witness: a Pending with hint 4 was handled at 0 and the next fetch of
\* the same cycle went out at 4000
C14_Witness ==
    /\ lastResp.kind = "pending"
    /\ lastResp.hint = "4"
    /\ lastResp.at = 0
    /\ Len(cycles) = 1
    /\ cycles[1].pc = "fetch"
    /\ cycles[1].at = 4000
    /\ cycles[1].nfetch = lastResp.nfetch + 1

-----------------------------------------------------------------------------
(* fitNick(el)      src/app/static/js/ui/shared.js                          *)
(* The file holds two definitions of fitNick (l.66-133 and l.360-404);      *)
(* which one a build runs is not fixed by the source, so a call may be of   *)
(* either. Font sizes are counted in half pixels, widths compared exactly.  *)

\* longest label (characters) handed to fitNick
MaxLabel == 22

\* const MIN_PX = 10
MIN_PX == 10
\* for (let i = 0; i < 16; i++)
MAX_ITER == 16

\* a size given in px, in half pixels
Px(n) == 2 * n

Versions == {1, 2}
\* card.clientWidth, in px
CardWidths == {0, 100, 240}
\* label lengths; formatNickText never gives an empty label
Labels == 1..MaxLabel
\* baseNick * textScale * headerScale, in half pixels: 29.5 px, 84 px, 112 px
Targets == {59, Px(84), Px(112)}
\* el.style.overflow / el.style.textOverflow before the call ("": not set)
OverflowStyles == {"", "hidden"}
TextOverflowStyles == {"", "ellipsis"}
\* el.style.fontSize before the call (0: not set)
FontSizes == {0, Px(40)}

\* 4 * el.scrollWidth of a label of n characters at a font size (half px),
\* each character half an em wide
ScrollWidth4(n, size) == n * size

\* el.scrollWidth > w, with w = cardW * 0.92
Overflows(n, size, cardW) == 25 * ScrollWidth4(n, size) > 92 * cardW

\* const mid = Math.floor((lo + hi) / 2)
Mid(lo, hi) == Px((lo + hi) \div 4)

\* one pass of the loop body: the new lo and the new hi
SearchLo(lo, hi, n, cardW) == IF Overflows(n, Mid(lo, hi), cardW) THEN lo ELSE Mid(lo, hi)
SearchHi(lo, hi, n, cardW) == IF Overflows(n, Mid(lo, hi), cardW) THEN Mid(lo, hi) - Px(1) ELSE hi

\* the loop, from pass i on: the value lo has when it is over
RECURSIVE Search(_, _, _, _, _)
Search(lo, hi, i, n, cardW) ==
    IF i >= MAX_ITER THEN lo
    ELSE Search(SearchLo(lo, hi, n, cardW), SearchHi(lo, hi, n, cardW), i + 1, n, cardW)

\* const needsSecondPass = el.scrollWidth > w   (measured at the target size)
MutNeedsSecondPass(n, target, cardW) == TRUE
NeedsSecondPass(n, target, cardW) == Overflows(n, target, cardW)

\* the font size a call that measures leaves on the label
FinalPx(n, cardW, target) ==
    IF NeedsSecondPass(n, target, cardW) THEN Search(Px(MIN_PX), target, 0, n, cardW) ELSE target

\* if (!cardW || cardW <= 0) return   -- only the first definition has it
Guarded(ver, cardW) == ver = 1 /\ cardW <= 0

\* el.style.overflow = prevOverflow || "clip"
RestoreOverflow(prev) == IF prev = "" THEN "clip" ELSE prev
\* el.style.textOverflow = prevTO || "ellipsis"
RestoreTextOverflow(prev) == IF prev = "" THEN "ellipsis" ELSE prev

\* finalPx < targetPx - EPS, EPS = 0.5
Shrunk(finalPx, target) == finalPx < target - 1

\* a call of fitNick(el) about to run
FitCalls ==
    {[pc |-> "call", ver |-> v, cardW |-> w, label |-> n, target |-> t,
      el |-> [fontSize |-> fs, overflow |-> o, textOverflow |-> to, shrunk |-> sh],
      before |-> [fontSize |-> fs, overflow |-> o, textOverflow |-> to, shrunk |-> sh],
      prevOverflow |-> "", prevTO |-> "", lo |-> 0, hi |-> 0, i |-> 0, finalPx |-> 0,
      tried |-> {}] :
        v \in Versions, w \in CardWidths, n \in Labels, t \in Targets, fs \in FontSizes,
        o \in OverflowStyles, to \in TextOverflowStyles, sh \in BOOLEAN}

\* fitNick up to the test of the first measurement
FitStart ==
    /\ fit.pc = "call"
    /\ fit' = IF Guarded(fit.ver, fit.cardW)
              THEN [fit EXCEPT !.pc = "done", !.el.shrunk = FALSE]
              ELSE [fit EXCEPT !.prevOverflow = fit.el.overflow,
                               !.prevTO = fit.el.textOverflow,
                               !.el.overflow = "visible",
                               !.el.textOverflow = "clip",
                               !.el.fontSize = fit.target,
                               !.tried = {fit.target},
                               !.finalPx = fit.target,
                               !.lo = Px(MIN_PX),
                               !.hi = fit.target,
                               !.pc = IF NeedsSecondPass(fit.label, fit.target, fit.cardW)
                                      THEN "loop" ELSE "restore"]
    /\ UNCHANGED <<now, liveVars, viewVars, sumVars, netVars, lay>>

\* one pass of the search loop
FitLoop ==
    /\ fit.pc = "loop"
    /\ fit.i < MAX_ITER
    /\ fit' = [fit EXCEPT !.el.fontSize = Mid(fit.lo, fit.hi),
                          !.tried = @ \cup {Mid(fit.lo, fit.hi)},
                          !.lo = SearchLo(fit.lo, fit.hi, fit.label, fit.cardW),
                          !.hi = SearchHi(fit.lo, fit.hi, fit.label, fit.cardW),
                          !.i = @ + 1]
    /\ UNCHANGED <<now, liveVars, viewVars, sumVars, netVars, lay>>

\* the loop is over: finalPx = lo; el.style.fontSize = finalPx + "px"
FitLoopEnd ==
    /\ fit.pc = "loop"
    /\ fit.i >= MAX_ITER
    /\ fit' = [fit EXCEPT !.finalPx = fit.lo, !.el.fontSize = fit.lo, !.pc = "restore"]
    /\ UNCHANGED <<now, liveVars, viewVars, sumVars, netVars, lay>>

\* the overflow styles are put back and (first definition) the mark is set
FitRestore ==
    /\ fit.pc = "restore"
    /\ fit' = [fit EXCEPT !.el.overflow = RestoreOverflow(fit.prevOverflow),
                          !.el.textOverflow = RestoreTextOverflow(fit.prevTO),
                          !.el.shrunk = IF fit.ver = 1 THEN Shrunk(fit.finalPx, fit.target)
                                        ELSE @,
                          !.pc = "done"]
    /\ UNCHANGED <<now, liveVars, viewVars, sumVars, netVars, lay>>

InitFit ==
    /\ now = 0
    /\ fadeCfg = 0
    /\ LiveInit
    /\ ViewInit
    /\ SumIdle
    /\ fit \in FitCalls
    /\ lay = LayIdle

NextFit ==
    \/ FitStart
    \/ FitLoop
    \/ FitLoopEnd
    \/ FitRestore

SpecFit == InitFit /\ [][NextFit]_vars

-----------------------------------------------------------------------------
(* fitNick claims, checked under SpecFit.                                  *)

\* the call is over and has measured the label
FitMeasured == fit.pc = "done" /\ ~Guarded(fit.ver, fit.cardW)

\* the integer px sizes in [MIN_PX, target] at which the label fits
FittingPx == {s \in MIN_PX..(fit.target \div 2) : ~Overflows(fit.label, Px(s), fit.cardW)}

\* C15: when the label does not fit at the target size but fits at some
\* integer size in [MIN_PX, target], the call leaves it at the largest such size.
C15_LargestFittingSize ==
    (FitMeasured /\ Overflows(fit.label, fit.target, fit.cardW) /\ FittingPx # {}) =>
        \E s \in FittingPx :
            /\ fit.el.fontSize = Px(s)
            /\ \A u \in FittingPx : u <= s

\* C16: when the label fits at the target size, the call leaves it at exactly
\* that size, and no other size was measured or applied.
C16_FitsAtMaxKeepsMax ==
    (fit.pc \in {"loop", "restore", "done"} /\ ~Guarded(fit.ver, fit.cardW)
        /\ ~Overflows(fit.label, fit.target, fit.cardW)) =>
            /\ fit.pc # "loop"
            /\ fit.el.fontSize = fit.target
            /\ fit.tried = {fit.target}
            /\ fit.i = 0

\* C16 witness: a label that fits at 29.5 px is left at 29.5 px
C16_Witness ==
    /\ fit.pc = "done"
    /\ fit.target = 59
    /\ fit.before.fontSize # 59
    /\ ~Overflows(fit.label, fit.target, fit.cardW)
    /\ fit.el.fontSize = 59

\* C17: when the label, measured, is too wide at MIN_PX, the call leaves it at
\* MIN_PX.
C17_NeverFitsGivesMin ==
    (FitMeasured /\ Overflows(fit.label, Px(MIN_PX), fit.cardW)) =>
        fit.el.fontSize = Px(MIN_PX)

\* C18: a shorter label (never wider, at any size) at the same card width and
\* target size is not left at a smaller size than this one.
C18_MonotoneInLabel ==
    FitMeasured =>
        \A n \in Labels : n <= fit.label => FinalPx(n, fit.cardW, fit.target) >= fit.el.fontSize

\* C19: when the call is over, overflow and text-overflow have the values
\* they had before it, whatever those were.
C19_OverflowRestoredExactly ==
    fit.pc = "done" =>
        /\ fit.el.overflow = fit.before.overflow
        /\ fit.el.textOverflow = fit.before.textOverflow

\* C20: with a card width of zero (or less) the call ends with the font size
\* and the overflow styles of the label unchanged.
C20_ZeroWidthNoChange ==
    (fit.pc = "done" /\ fit.cardW <= 0) =>
        /\ fit.el.fontSize = fit.before.fontSize
        /\ fit.el.overflow = fit.before.overflow
        /\ fit.el.textOverflow = fit.before.textOverflow

-----------------------------------------------------------------------------
(* layoutForCount(n) and the text scales   src/app/static/js/ui/shared.js  *)
(* Lengths are CSS pixels; quotients are kept exact, as reduced fractions. *)

\* largest number of cards handed to layoutForCount
MaxCount == 26

\* grid.clientWidth, grid.clientHeight and the computed gap of #grid
GridWidths == {0, 300, 1000}
GridHeights == {0, 200, 600}
Gaps == {0, 12}
\* the n of layoutForCount(n): cards.size or devices.length
Counts == 0..MaxCount

FracLess(a, b) == a.num * b.den < b.num * a.den
FracMin(a, b) == IF FracLess(b, a) THEN b ELSE a
FracMax(a, b) == IF FracLess(a, b) THEN b ELSE a
FracDiv(a, b) == Frac(a.num * b.den, a.den * b.num)

\* Math.max(0, (size - (k - 1) * gap) / k)
PerCard(size, gap, k) ==
    IF size - (k - 1) * gap <= 0 THEN Frac(0, 1) ELSE Frac(size - (k - 1) * gap, k)

computeMinDimPerCard(W, H, gap, cols, rows) ==
    FracMin(PerCard(W, gap, cols), PerCard(H, gap, rows))

\* scale = Math.max(0.35, Math.min(1, scale))
MutClampScale(x) == FracMin(One, x)
ClampScale(x) == FracMax(Frac(7, 20), FracMin(One, x))

\* --text-scale
TextScale(W, H, gap, cols, rows) ==
    LET baseMin == computeMinDimPerCard(W, H, gap, 1, 1)
        curMin == computeMinDimPerCard(W, H, gap, cols, rows)
    IN  ClampScale(IF baseMin.num > 0 THEN FracDiv(curMin, baseMin) ELSE One)

\* --metric-scale
MutMetricScale(count) == IF count \in {2, 7} THEN Frac(3, 4) ELSE One
MetricScale(count) == IF count = 2 \/ count = 7 \/ count = 8 THEN Frac(3, 4) ELSE One

\* --header-scale
HeaderScale(count) == IF count >= 13 /\ count <= 24 THEN Frac(3, 4) ELSE One

\* the columns and rows chosen for n >= 1 cards
MutCols(n) ==
    IF n <= 2 THEN n
    ELSE IF n <= 4 THEN 2
    ELSE IF n <= 8 THEN 3
    ELSE IF n = 9 THEN 3
    ELSE 4
Cols(n) ==
    IF n <= 2 THEN n
    ELSE IF n <= 4 THEN 2
    ELSE IF n <= 6 THEN 3
    ELSE IF n <= 8 THEN 4
    ELSE IF n = 9 THEN 3
    ELSE 4
Rows(n) ==
    IF n <= 2 THEN 1
    ELSE IF n <= 8 THEN 2
    ELSE IF n <= 12 THEN 3
    ELSE 4

\* the container before any layout pass: no template, no scale written
LayReady(W, H, gap) ==
    [pc |-> "ready", W |-> W, H |-> H, gap |-> gap, n |-> NULL,
     templateCols |-> 0, templateRows |-> 0, cardHeight |-> Unset,
     textScale |-> Unset, metricScale |-> Unset, headerScale |-> Unset,
     ret |-> [cols |-> 0, rows |-> 0, heightPerCard |-> Unset]]

\* layoutForCount(n) on container l: the styles written and the value returned
\* (a template of 0 columns or rows stands for the empty string)
layoutForCount(l, n) ==
    IF n <= 0
    THEN [l EXCEPT !.pc = "done", !.n = n,
                   !.templateCols = 0, !.templateRows = 0,
                   !.textScale = TextScale(l.W, l.H, l.gap, 1, 1),
                   !.metricScale = MetricScale(0),
                   !.headerScale = HeaderScale(0),
                   !.ret = [cols |-> 1, rows |-> 1, heightPerCard |-> Frac(l.H, 1)]]
    ELSE [l EXCEPT !.pc = "done", !.n = n,
                   !.templateCols = Cols(n), !.templateRows = Rows(n),
                   !.cardHeight = PerCard(l.H, l.gap, Rows(n)),
                   !.textScale = TextScale(l.W, l.H, l.gap, Cols(n), Rows(n)),
                   !.metricScale = MetricScale(n),
                   !.headerScale = HeaderScale(n),
                   !.ret = [cols |-> Cols(n), rows |-> Rows(n),
                            heightPerCard |-> PerCard(l.H, l.gap, Rows(n))]]

\* a layout pass for n cards
LayoutForCount(n) ==
    /\ lay.pc \in {"ready", "done"}
    /\ lay' = layoutForCount(lay, n)
    /\ UNCHANGED <<now, liveVars, viewVars, sumVars, netVars, fit>>

InitLayout ==
    /\ now = 0
    /\ fadeCfg = 0
    /\ LiveInit
    /\ ViewInit
    /\ SumIdle
    /\ fit = FitIdle
    /\ \E W \in GridWidths, H \in GridHeights, gap \in Gaps : lay = LayReady(W, H, gap)

NextLayout == \E n \in Counts : LayoutForCount(n)

SpecLayout == InitLayout /\ [][NextLayout]_vars

-----------------------------------------------------------------------------
(* Layout claims, checked under SpecLayout.                                *)

\* the grid of the specification's table
GridTable(n) ==
    CASE n <= 0 -> <<1, 1>>
      [] n \in 1..2 -> <<n, 1>>
      [] n \in 3..4 -> <<2, 2>>
      [] n \in 5..6 -> <<3, 2>>
      [] n \in 7..8 -> <<4, 2>>
      [] n = 9 -> <<3, 3>>
      [] n \in 10..12 -> <<4, 3>>
      [] OTHER -> <<4, 4>>

\* C21: a layout pass for n cards returns the columns and rows of the table,
\* whatever the container and the previous pass were, writes them to the grid
\* template when n >= 1, and for 1 <= n <= 16 the grid has room for n cards.
C21_GridFromTable ==
    lay.pc = "done" =>
        /\ <<lay.ret.cols, lay.ret.rows>> = GridTable(lay.n)
        /\ lay.n >= 1 => <<lay.templateCols, lay.templateRows>> = GridTable(lay.n)
        /\ lay.n \in 1..16 => lay.ret.cols * lay.ret.rows >= lay.n

\* a pass for 7 cards has chosen 4 x 2
C21_Witness == lay.pc = "done" /\ lay.n = 7 /\ lay.ret.cols = 4 /\ lay.ret.rows = 2

MinDimRatio(l) ==
    LET c == l.ret.cols
        r == l.ret.rows
        w == IF l.W - (c - 1) * l.gap > 0 THEN l.W - (c - 1) * l.gap ELSE 0
        h == IF l.H - (r - 1) * l.gap > 0 THEN l.H - (r - 1) * l.gap ELSE 0
        base == IF l.W < l.H THEN l.W ELSE l.H
    IN  IF w * r < h * c THEN <<w, c * base>> ELSE <<h, r * base>>

\* C23: after a layout pass, --text-scale is minDim(cols, rows) / minDim(1, 1)
\* clamped to [0.35, 1], and 1 when minDim(1, 1) is zero.
C23_TextScaleClamped ==
    lay.pc = "done" =>
        IF lay.W = 0 \/ lay.H = 0
        THEN lay.textScale = One
        ELSE LET q == MinDimRatio(lay) IN
             /\ 20 * q[1] < 7 * q[2] => lay.textScale = Frac(7, 20)
             /\ q[1] > q[2] => lay.textScale = One
             /\ (20 * q[1] >= 7 * q[2] /\ q[1] <= q[2]) =>
                    lay.textScale.num * q[2] = q[1] * lay.textScale.den

\* a pass whose quotient lies strictly inside the clamp: 2 cards in 300 x 200
\* with a gap of 12 give (288 / 2) / 200 = 0.72
C23_Witness ==
    /\ lay.pc = "done" /\ lay.n = 2
    /\ lay.W = 300 /\ lay.H = 200 /\ lay.gap = 12
    /\ lay.textScale = Frac(18, 25)

-----------------------------------------------------------------------------
(* The run id and the retry timer of the summary view, under SpecSummary.  *)

\* the response handled in this step is an Ok snapshot with devices
GotSnapshot ==
    /\ Handled
    /\ lastResp'.kind = "ok"
    /\ lastResp'.nonEmpty

\* C31: an Ok snapshot with devices and without run id is rendered by the
\* cycle that receives it, whatever was rendered before (the grid shows its
\* cards, the last rendered runId becomes absent); and a snapshot with devices
\* is dropped as stale only when the last rendered runId and its own are both
\* present and equal.
C31_NoRunIdAlwaysRendered ==
    [][/\ (GotSnapshot /\ lastResp'.run = "null") =>
              /\ lastResp'.renders = 1
              /\ Shown(sgrid') = <<"cards", "null", sgrid'.n, sgrid'.n>>
              /\ sgrid'.n >= 1
              /\ currentRunId' = "null"
       /\ (GotSnapshot /\ lastResp'.renders = 0) =>
              /\ currentRunId # "null"
              /\ lastResp'.run # "null"
              /\ lastResp'.run = currentRunId
      ]_vars

\* C31 witness: run A was displayed and a snapshot without run id replaced it
C31_Witness ==
    /\ lastResp.kind = "ok"
    /\ lastResp.cur = "A"
    /\ lastResp.run = "null"
    /\ lastResp.renders = 1
    /\ sgrid.kind = "cards"
    /\ sgrid.run = "null"
    /\ currentRunId = "null"

\* C37: the view is always inside a cycle or has a silent-retry timeout
\* pending, and every step in which a cycle ends arms that timeout, 5000 ms
\* ahead.
C37_CycleOrRetryPending ==
    /\ [](cycles # <<>> \/ timers # {})
    /\ [][Len(cycles') < Len(cycles) => RetryArmed(5000)]_vars

\* C37 witness: the cycle ended on an HTTP error and only the timer is left
C37_Witness ==
    /\ cycles = <<>>
    /\ lastResp.kind = "error"
    /\ lastResp.renders = 0
    /\ Cardinality(timers) = 1

-----------------------------------------------------------------------------
(* The fade of an absent card, under SpecLive.                             *)

\* a <= b for the fractions written into the style
FracLeq(a, b) == a.num * b.den <= b.num * a.den

\* C33: a reconcile call that finds a fading card (fading since t0) absent
\* and keeps it writes opacity 1 - (now - t0)/fadeMs, in (0, 1], and scale
\* 1 - 0.02 * (now - t0)/fadeMs, in (0.98, 1], from the clock of that call;
\* the opacity written is never above the one the card had.
C33_FadeFollowsElapsed ==
    [][\A k \in DOMAIN cards :
          (cards[k].fadeStart # NULL /\ k \in DOMAIN cards') =>
              LET elapsed == now' - cards[k].fadeStart
                  fadeMs == FadeMs(fadeCfg)
                  was == els[cards[k].el]
                  el == els'[cards[k].el]
              IN  \/ /\ cards'[k] = cards[k]
                     /\ el.opacity = Frac(fadeMs - elapsed, fadeMs)
                     /\ FracLess(Frac(0, 1), el.opacity)
                     /\ FracLeq(el.opacity, One)
                     /\ el.transform = Frac(50 * fadeMs - elapsed, 50 * fadeMs)
                     /\ FracLess(Frac(49, 50), el.transform)
                     /\ FracLeq(el.transform, One)
                     /\ was.opacity.set => FracLeq(el.opacity, was.opacity)
                  \/ ~CallWithout(k)
      ]_vars

\* C33 witness: d1, absent for 40000 ms of a 60000 ms fade, is shown at
\* opacity 1/3 and scale 74/75
C33_Witness ==
    /\ "d1" \in DOMAIN cards
    /\ "d1" \notin lastCall.devs
    /\ now - cards["d1"].fadeStart = 40000
    /\ els[cards["d1"].el].opacity = Frac(1, 3)
    /\ els[cards["d1"].el].transform = Frac(74, 75)

\* C34: the fade clock of a card is the time of the first call of its current
\* absence (none while its dev is in the batches), also after earlier
\* absences that ended with the dev coming back; and a card is removed only
\* when that absence has lasted fadeDurationMs or more.
C34_FadeClockPerAbsence ==
    /\ [](\A k \in DOMAIN cards : cards[k].fadeStart = absentSince[k])
    /\ [][\A k \in DOMAIN cards :
             k \notin DOMAIN cards' =>
                 /\ absentSince[k] # NULL
                 /\ now' - absentSince[k] >= FadeMs(fadeCfg)
         ]_vars

\* C34 witness: d1 came back from a fade (opacity "1", transform cleared) and
\* is absent again, its clock started at the first call of the new absence
C34_Witness ==
    /\ "d1" \in DOMAIN cards
    /\ "d1" \notin lastCall.devs
    /\ cards["d1"].fadeStart = now
    /\ now >= 40000
    /\ els[cards["d1"].el].opacity = One
    /\ els[cards["d1"].el].transform = Unset

-----------------------------------------------------------------------------
(* The range of the sizes fitNick measures and applies, under SpecFit.     *)

\* C39: with a target size of MIN_PX or more, every size the call measures
\* and the size it leaves on the label lie in [MIN_PX, target].
C39_SizeWithinRange ==
    (fit.pc \in {"loop", "restore", "done"} /\ ~Guarded(fit.ver, fit.cardW)
        /\ fit.target >= Px(MIN_PX)) =>
            \A size \in fit.tried \cup {fit.el.fontSize} :
                size >= Px(MIN_PX) /\ size <= fit.target

-----------------------------------------------------------------------------
(* Layout after reconcile, under FairSpecFeed.                             *)

\* C32: after every reconcile call a layoutForCount call is eventually made;
\* every layoutForCount call of a frame gets the number of cards in the
\* roster at that frame, fading ones included; and when no callback is left
\* waiting, the last layout made is the one for the roster as it is.
C32_LayoutFollowsReconcile ==
    /\ owed ~> ~owed
    /\ [][Frame => \A i \in 1..Len(laidOut') : laidOut'[i] = Cardinality(DOMAIN cards)]_vars
    /\ []((raf = <<>> /\ DOMAIN cards # {}) => laidOut = <<Cardinality(DOMAIN cards)>>)

-----------------------------------------------------------------------------
(* startStream() and tick()      src/unnamed/part_002 l.158-224            *)
(* sse(url, onMessage, onError)  src/app/static/js/core/api.js l.16-26     *)
(* The latency of a /live request (up to its 8000 ms timeout) and the delay *)
(* of a tick timer (1000 or 5000 ms) overlap, so a pending timer and a      *)
(* request in flight may finish in either order. beforeunload ends the page *)
(* and is not part of this specification.                                   *)

\* clearTimeout(t) for the abort timer of fetchJSON
MutClearTimer(timer) == timer
ClearTimer(timer) == IF timer = "armed" THEN "cleared" ELSE timer

\* what fetchJSON("/live?limit=32") resolves to:
\*   null (any failure), an array, an object without length, a JSON string
\* length: the value of list.length (0: undefined or 0)
NullPayload == [isNull |-> TRUE, isArray |-> FALSE, items |-> <<>>, length |-> 0]
ArrayPayload(arr) == [isNull |-> FALSE, isArray |-> TRUE, items |-> arr, length |-> Len(arr)]
ObjectPayload == [isNull |-> FALSE, isArray |-> FALSE, items |-> <<>>, length |-> 0]
StringPayload == [isNull |-> FALSE, isArray |-> FALSE, items |-> <<>>, length |-> 2]

PollSamples == {[dev |-> "d1", hr |-> 100], NullEntry}
Payloads ==
    {NullPayload, ObjectPayload, StringPayload} \cup {ArrayPayload(a) : a \in SeqsUpTo(PollSamples, 1)}
\* the data of an SSE message, parsed
Messages == {ArrayPayload(a) : a \in SeqsUpTo(PollSamples, 1)} \cup {ObjectPayload}

\* list || []
OrEmpty(list) == IF list.isNull THEN ArrayPayload(<<>>) ELSE list

\* list && list.length ? 1000 : 5000
TickDelay(list) == IF ~list.isNull /\ list.length # 0 THEN 1000 ELSE 5000

\* setTimeout(tick, delay): a handle not in use
FreshTimer(ts) == CHOOSE n \in 1..(Cardinality(ts) + 1) : n \notin {t.id : t \in ts}

\* most requests for /live awaited at once in the model
MaxInflight == 3

\* startStream(). new EventSource(url) gives a stream, or throws: then the
\* catch of sse calls onError (es = null; tick()) and returns null, and
\* startStream, finding es null, calls tick()
StartStream(throws) ==
    /\ Loaded
    /\ es = "idle"
    /\ es' = IF throws THEN "null" ELSE "open"
    /\ inflight' = IF throws THEN inflight + 2 ELSE inflight
    /\ UNCHANGED <<nextTimer, tickTimers, lastTick, req>>
    /\ UNCHANGED <<now, liveVars, viewVars, sumVars, uiVars>>

\* es.onmessage: try { reconcile(JSON.parse(data)) } catch {}
StreamMessage(list, dt) ==
    /\ es = "open"
    /\ ReconcileBody(list, dt)
    /\ UNCHANGED <<viewVars, sumVars, netVars, uiVars>>

\* es.onerror: onError() (es = null; tick()), then es.close()
StreamError ==
    /\ Loaded
    /\ es = "open"
    /\ inflight < MaxInflight
    /\ es' = "null"
    /\ inflight' = inflight + 1
    /\ UNCHANGED <<nextTimer, tickTimers, lastTick, req>>
    /\ UNCHANGED <<now, liveVars, viewVars, sumVars, uiVars>>

\* a tick() gets the result of its fetchJSON, dt ms after the previous
\* reconcile call: reconcile(list || []); clearTimeout(nextTimer);
\* nextTimer = setTimeout(tick, ...). When reconcile throws, tick ends there.
TickDone(list, dt) ==
    /\ inflight > 0
    /\ inflight' = inflight - 1
    /\ ReconcileBody(OrEmpty(list), dt)
    /\ IF Throws(AsArray(OrEmpty(list)))
       THEN UNCHANGED <<nextTimer, tickTimers>>
       ELSE \E id \in {FreshTimer(ClearTimeout(tickTimers, nextTimer))} :
               /\ nextTimer' = id
               /\ tickTimers' = ClearTimeout(tickTimers, nextTimer)
                                    \cup {[id |-> id, due |-> TickDelay(list)]}
    /\ lastTick' = [list |-> list, threw |-> Throws(AsArray(OrEmpty(list)))]
    /\ UNCHANGED <<es, req>>
    /\ UNCHANGED <<viewVars, sumVars, uiVars>>

\* a tick timer fires: tick() issues its fetchJSON
TickFires(tm) ==
    /\ Loaded
    /\ tm \in tickTimers
    /\ inflight < MaxInflight
    /\ tickTimers' = tickTimers \ {tm}
    /\ inflight' = inflight + 1
    /\ UNCHANGED <<es, nextTimer, lastTick, req>>
    /\ UNCHANGED <<now, liveVars, viewVars, sumVars, uiVars>>

\* the clock values between two reconcile calls of the polling model
PollDelays == {0, 40000}

NextPoll ==
    \/ \E throws \in BOOLEAN : StartStream(throws)
    \/ \E list \in Messages, dt \in PollDelays : StreamMessage(list, dt)
    \/ StreamError
    \/ \E list \in Payloads, dt \in PollDelays : TickDone(list, dt)
    \/ \E tm \in tickTimers : TickFires(tm)
    \/ Frame

\* the live view when start() calls startStream()
SpecPoll == InitLive /\ [][NextPoll]_vars

\* the step in which a tick() got the result of its fetch
TickStep == inflight' < inflight
\* the batch reconcile makes of what a tick received
BatchOf(list) == AsArray(OrEmpty(list))
\* the timers armed in this step
Armed == tickTimers' \ tickTimers

\* C35: a tick whose fetch has completed, whatever it received, arms exactly
\* one next tick, 1000 ms ahead when the batch it handed to reconcile is not
\* empty and 5000 ms ahead otherwise; and once polling has started a request
\* is in flight or a tick timer is pending.
C35_EveryTickArmsTheNext ==
    /\ [][TickStep =>
             /\ owed'
             /\ Armed = {[id |-> nextTimer',
                          due |-> IF BatchOf(lastTick'.list) # <<>> THEN 1000 ELSE 5000]}
         ]_vars
    /\ [](es = "null" => inflight > 0 \/ tickTimers # {})

\* C36: never two requests for /live in flight, never a request in flight
\* while a tick timer is pending, never two tick timers; and while the stream
\* is there no request is in flight and no tick timer is pending.
C36_OnePollingChain ==
    /\ inflight + Cardinality(tickTimers) <= 1
    /\ es = "open" => inflight = 0 /\ tickTimers = {}

-----------------------------------------------------------------------------
(* fetchJSON(url, opts)          src/app/static/js/core/api.js l.1-13      *)

\* opts.timeout (0: not given)
TimeoutOpts == {0, 1000, 3000, 8000}
\* ms from the call to the response headers or to the network failure
FetchLatencies == {0, 1000, 3000, 8000}
\* res.status
Statuses == {200, 204, 404, 500}
\* the text of the response body
D1Text == <<"[", "{", "d", "1", "}", "]">>
BodyTexts == {<<>>, <<"[", "]">>, D1Text, <<"{", "}">>, <<"n", "u", "l", "l">>, <<"<", "h", "t", "m", "l", ">">>}

\* opts.timeout || 8000
TimeoutOf(opt) == IF opt = 0 THEN 8000 ELSE opt

\* res.ok
IsOk(status) == status >= 200 /\ status <= 299

\* res.json(): [ok, value]; ok FALSE when the text is not JSON (the promise rejects)
ParseJSON(text) ==
    CASE text = <<"[", "]">>           -> [ok |-> TRUE, value |-> ArrayPayload(<<>>)]
      [] text = D1Text                 -> [ok |-> TRUE, value |-> ArrayPayload(<<[dev |-> "d1", hr |-> 100]>>)]
      [] text = <<"{", "}">>           -> [ok |-> TRUE, value |-> ObjectPayload]
      [] text = <<"n", "u", "l", "l">> -> [ok |-> TRUE, value |-> NullPayload]
      [] OTHER                         -> [ok |-> FALSE, value |-> NullPayload]

\* catch (e) { clearTimeout(t); return null; }
Catch(r, how, at) ==
    [r EXCEPT !.pc = "done", !.timer = ClearTimer(@), !.result = NullPayload,
              !.how = how, !.at = at]

\* fetchJSON(url, opts) is called: the abort timer is armed and fetch() issued
FetchCall(opt) ==
    /\ req = ReqIdle
    /\ req' = [pc |-> "fetch", opt |-> opt, timer |-> "armed", delay |-> TimeoutOf(opt),
               how |-> "", at |-> 0, status |-> 0, body |-> <<>>, result |-> NullPayload,
               rejected |-> FALSE]
    /\ UNCHANGED <<es, inflight, nextTimer, tickTimers, lastTick>>
    /\ UNCHANGED <<now, liveVars, viewVars, sumVars, uiVars>>

\* the response headers arrive, lat ms after the call and before the abort
\* timer has fired: clearTimeout(t); if (!res.ok) throw
FetchResponds(lat, status) ==
    /\ req.pc = "fetch"
    /\ lat <= req.delay
    /\ req' = IF IsOk(status)
              THEN [req EXCEPT !.pc = "body", !.timer = ClearTimer(@), !.status = status,
                               !.at = lat]
              ELSE Catch([req EXCEPT !.timer = ClearTimer(@), !.status = status],
                         "status", lat)
    /\ UNCHANGED <<es, inflight, nextTimer, tickTimers, lastTick>>
    /\ UNCHANGED <<now, liveVars, viewVars, sumVars, uiVars>>

\* fetch() rejects (network failure) before the abort timer has fired
FetchFails(lat) ==
    /\ req.pc = "fetch"
    /\ lat <= req.delay
    /\ req' = Catch(req, "network", lat)
    /\ UNCHANGED <<es, inflight, nextTimer, tickTimers, lastTick>>
    /\ UNCHANGED <<now, liveVars, viewVars, sumVars, uiVars>>

\* the abort timer fires: ctrl.abort(), fetch() rejects with an AbortError
AbortFires ==
    /\ req.pc = "fetch"
    /\ req.timer = "armed"
    /\ req' = Catch([req EXCEPT !.timer = "fired"], "abort", req.delay)
    /\ UNCHANGED <<es, inflight, nextTimer, tickTimers, lastTick>>
    /\ UNCHANGED <<now, liveVars, viewVars, sumVars, uiVars>>

\* res.json() settles on the body text
BodyRead(text) ==
    /\ req.pc = "body"
    /\ req' = IF ParseJSON(text).ok
              THEN [req EXCEPT !.pc = "done", !.body = text, !.how = "json",
                               !.result = ParseJSON(text).value]
              ELSE Catch([req EXCEPT !.body = text], "parse", req.at)
    /\ UNCHANGED <<es, inflight, nextTimer, tickTimers, lastTick>>
    /\ UNCHANGED <<now, liveVars, viewVars, sumVars, uiVars>>

NextFetch ==
    \/ \E opt \in TimeoutOpts : FetchCall(opt)
    \/ \E lat \in FetchLatencies, status \in Statuses : FetchResponds(lat, status)
    \/ \E lat \in FetchLatencies : FetchFails(lat)
    \/ AbortFires
    \/ \E text \in BodyTexts : BodyRead(text)

\* one call of fetchJSON
SpecFetch == InitLive /\ [][NextFetch]_vars

\* C40: a call of fetchJSON that has settled has resolved, never rejected: to
\* the parsed body when the status was 2xx and the body was JSON, to null
\* after a status outside 2xx, a network failure, an unparsable body or the
\* abort, which comes opts.timeout ms (8000 when not given) after the call;
\* and its abort timer is no longer pending.
C40_FetchJSONNeverRejects ==
    req.pc = "done" =>
        /\ ~req.rejected
        /\ req.timer \in {"cleared", "fired"}
        /\ req.how \in {"json", "status", "network", "parse", "abort"}
        /\ req.how = "json" =>
               /\ req.status \in 200..299
               /\ req.result = ParseJSON(req.body).value
               /\ ParseJSON(req.body).ok
        /\ req.how # "json" => req.result = NullPayload
        /\ req.how = "status" => req.status \notin 200..299
        /\ req.how = "abort" =>
               /\ req.at = (IF req.opt = 0 THEN 8000 ELSE req.opt)
               /\ req.timer = "fired"
        /\ req.how # "abort" => req.timer = "cleared" /\ req.at <= req.delay

\* C40 witness: no timeout given, no answer for 8000 ms: aborted, null
C40_Witness ==
    /\ req.pc = "done"
    /\ req.opt = 0
    /\ req.how = "abort"
    /\ req.at = 8000
    /\ req.result = NullPayload
    /\ req.timer = "fired"

-----------------------------------------------------------------------------
(* lastETag and the displayed snapshot, under SpecRows.                    *)

\* C38: lastETag and currentRunId change only in a step that renders a
\* snapshot, and that step leaves the ETag and the runId of the snapshot it
\* has put on display.
C38_ETagWithRenderedSnapshot ==
    [][(lastETag' # lastETag \/ currentRunId' # currentRunId) =>
          /\ Handled
          /\ lastResp'.renders = 1
          /\ lastETag' = TagOf(lastResp'.hdr)
          /\ currentRunId' = lastResp'.run
          /\ sgrid'.kind = "cards"
          /\ sgrid'.run = lastResp'.run
      ]_vars

====
